---- MODULE Spec2Model ----
(***************************************************************************)
(* Model of convert.py: Japanese subtitle track selection                  *)
(* (pick_best_jpn_text_sub), the external-subtitle fallback                *)
(* (find_external_sub / extract_subs), the sed clean-up (clean_srt) and    *)
(* the per-file loop of main.                                              *)
(*                                                                         *)
(* Python strings are sequences of one-character strings, so that          *)
(* str.lower(), the `in' substring test and the sed substitutions are      *)
(* computed character by character.  None and "" are both falsy in every   *)
(* place the program reads them and are both the empty sequence.           *)
(***************************************************************************)
EXTENDS Integers, Sequences, FiniteSets, TLC

VARIABLES
    pc,          \* position of the modelled run
    streams,     \* ffprobe_streams(infile): the list of stream dicts
    result,      \* the (idx, reason) pair returned by pick_best_jpn_text_sub
    text,        \* content of tmp_srt before sed runs
    cleaned,     \* content of the file after clean_srt
    clean_only,  \* args.clean_only
    cur,         \* position of main's loop in files (1-based)
    existing,    \* the sibling candidates that exist for the current file
    ext_sub,     \* value of ext_sub in extract_subs for the current file
    status       \* per file: what has run for it so far

vars == <<pc, streams, result, text, cleaned, clean_only, cur, existing, ext_sub, status>>

-----------------------------------------------------------------------------
(* Bounds *)

MaxStreams == 2
MaxFrags == 3
NumFiles == 2

-----------------------------------------------------------------------------
(* Strings *)

None == <<>>

\* str.lower() on the letters A-Z
ToLower ==
    [c \in {"A", "B", "C", "D", "E", "F", "G", "H", "I", "J", "K", "L", "M",
            "N", "O", "P", "Q", "R", "S", "T", "U", "V", "W", "X", "Y", "Z"} |->
        CASE c = "A" -> "a" [] c = "B" -> "b" [] c = "C" -> "c" [] c = "D" -> "d"
          [] c = "E" -> "e" [] c = "F" -> "f" [] c = "G" -> "g" [] c = "H" -> "h"
          [] c = "I" -> "i" [] c = "J" -> "j" [] c = "K" -> "k" [] c = "L" -> "l"
          [] c = "M" -> "m" [] c = "N" -> "n" [] c = "O" -> "o" [] c = "P" -> "p"
          [] c = "Q" -> "q" [] c = "R" -> "r" [] c = "S" -> "s" [] c = "T" -> "t"
          [] c = "U" -> "u" [] c = "V" -> "v" [] c = "W" -> "w" [] c = "X" -> "x"
          [] c = "Y" -> "y" [] c = "Z" -> "z"]

\* str.lower() on one character
LowerChar(c) == IF c \in DOMAIN ToLower THEN ToLower[c] ELSE c

\* str.lower()
Lower(s) == [i \in 1..Len(s) |-> LowerChar(s[i])]

\* k in t, for strings
Contains(t, k) ==
    \E i \in 1..(Len(t) - Len(k) + 1) : \A j \in 1..Len(k) : t[i + j - 1] = k[j]

\* x in {...}, for a set given as a sequence of strings
InList(x, ks) == \E i \in 1..Len(ks) : ks[i] = x

-----------------------------------------------------------------------------
(* Codec tables *)

TEXT_SUB_CODECS == <<
    <<"s", "u", "b", "r", "i", "p">>,
    <<"a", "s", "s">>,
    <<"s", "s", "a">>,
    <<"m", "o", "v", "_", "t", "e", "x", "t">>,
    <<"w", "e", "b", "v", "t", "t">> >>

BITMAP_SUB_CODECS == <<
    <<"h", "d", "m", "v", "_", "p", "g", "s", "_", "s", "u", "b", "t", "i", "t", "l", "e">>,
    <<"d", "v", "d", "_", "s", "u", "b", "t", "i", "t", "l", "e">> >>

-----------------------------------------------------------------------------
(* Language and title tests *)

\* tags.get("language") or tags.get("LANGUAGE") or ""
lang_of(tags) == IF tags.language # None THEN tags.language ELSE tags.LANGUAGE

\* is_japanese comparing the tag without lower()
is_japanese_no_lower(tags) ==
    InList(lang_of(tags), << <<"j", "p", "n">>, <<"j", "a">> >>)

is_japanese(tags) ==
    InList(Lower(lang_of(tags)), << <<"j", "p", "n">>, <<"j", "a">> >>)

forced_labels == <<
    <<"f", "o", "r", "c", "e", "d">>,
    <<"s", "i", "g", "n", "s">>,
    <<"s", "o", "n", "g", "s", " ", "&", " ", "s", "i", "g", "n", "s">>,
    <<"s", "o", "n", "g", "s", "/", "s", "i", "g", "n", "s">> >>

title_contains_forced(title) ==
    IF title = None THEN FALSE
    ELSE LET t == Lower(title)
         IN  \E i \in 1..Len(forced_labels) : Contains(t, forced_labels[i])

\* title_prefers_full without the boost for "full"
title_prefers_full_no_boost(title) ==
    IF title = None THEN 0
    ELSE LET t == Lower(title)
         IN  (IF Contains(t, <<"s", "d", "h">>)
                 \/ Contains(t, <<"h", "e", "a", "r", "i", "n", "g">>) THEN 1 ELSE 0)
           - (IF Contains(t, <<"f", "o", "r", "c", "e", "d">>)
                 \/ Contains(t, <<"s", "i", "g", "n">>) THEN 5 ELSE 0)

title_prefers_full(title) ==
    IF title = None THEN 0
    ELSE LET t == Lower(title)
         IN  (IF Contains(t, <<"f", "u", "l", "l">>) THEN 3 ELSE 0)
           + (IF Contains(t, <<"s", "d", "h">>)
                 \/ Contains(t, <<"h", "e", "a", "r", "i", "n", "g">>) THEN 1 ELSE 0)
           - (IF Contains(t, <<"f", "o", "r", "c", "e", "d">>)
                 \/ Contains(t, <<"s", "i", "g", "n">>) THEN 5 ELSE 0)

-----------------------------------------------------------------------------
(* pick_best_jpn_text_sub *)

NoStreams == "No subtitle streams found"
NoLanguageMatch == "No Japanese subtitle streams found"
ImageOnly == "Only image-based Japanese subtitles found (e.g., PGS). Cannot convert to .srt without OCR."
NoTextJpn == "No text-based Japanese subtitles found"
Selected == "Selected Japanese full text subtitles"

codec_of(s) == Lower(s.codec_name)

jpn_streams(ss) == SelectSeq(ss, LAMBDA s : is_japanese(s.tags))

\* the text_jpn list built from jpn_streams
text_jpn(jpn) ==
    SelectSeq(jpn, LAMBDA s : InList(codec_of(s), TEXT_SUB_CODECS))

\* the partition with `else' in place of `elif codec in BITMAP_SUB_CODECS'
bitmap_jpn_else(jpn) ==
    SelectSeq(jpn, LAMBDA s : ~InList(codec_of(s), TEXT_SUB_CODECS))

\* the bitmap_jpn list built from jpn_streams
bitmap_jpn(jpn) ==
    SelectSeq(jpn,
              LAMBDA s : /\ ~InList(codec_of(s), TEXT_SUB_CODECS)
                         /\ InList(codec_of(s), BITMAP_SUB_CODECS))

\* score_stream with idx in place of -idx
score_stream_index_up(s) ==
    LET forced  == s.disposition.forced
        default == s.disposition.default
        base    == 100 + title_prefers_full(s.tags.title)
                       + (IF default # 0 THEN 5 ELSE 0)
                       + (IF forced # 0 THEN 0 ELSE 10)
    IN  <<base, s.index, -forced>>

score_stream(s) ==
    LET forced  == s.disposition.forced
        default == s.disposition.default
        base    == 100 + title_prefers_full(s.tags.title)
                       + (IF default # 0 THEN 5 ELSE 0)
                       + (IF forced # 0 THEN 0 ELSE 10)
    IN  <<base, -s.index, -forced>>

non_forced_text(txt) ==
    SelectSeq(txt,
              LAMBDA s : /\ s.disposition.forced = 0
                         /\ ~title_contains_forced(s.tags.title))

\* the pool without the forced filter
pool_unfiltered(txt) == txt

\* pool = non_forced_text if non_forced_text else text_jpn
pool(txt) ==
    LET nf == non_forced_text(txt)
    IN  IF nf # <<>> THEN nf ELSE txt

\* tuple comparison a < b of two score tuples
TupleLess(a, b) ==
    \/ a[1] < b[1]
    \/ a[1] = b[1] /\ a[2] < b[2]
    \/ a[1] = b[1] /\ a[2] = b[2] /\ a[3] < b[3]

\* sorted(p, key=score_stream, reverse=True): a stable sort, so p[i] lands
\* behind the elements with a greater key and behind the elements with an
\* equal key that precede it in p
sorted_desc(p) ==
    LET keys == [i \in 1..Len(p) |-> score_stream(p[i])]
        place == [i \in 1..Len(p) |->
                    1 + Cardinality({j \in 1..Len(p) :
                                        \/ TupleLess(keys[i], keys[j])
                                        \/ keys[j] = keys[i] /\ j < i})]
    IN  [k \in 1..Len(p) |-> p[CHOOSE i \in 1..Len(p) : place[i] = k]]

\* pick_best_jpn_text_sub giving up when every text stream looks forced
pick_best_no_fallback(ss) ==
    LET jpn == jpn_streams(ss)
        txt == text_jpn(jpn)
    IN  IF ss = <<>> THEN [idx |-> None, reason |-> NoStreams]
        ELSE IF jpn = <<>> THEN [idx |-> None, reason |-> NoLanguageMatch]
        ELSE IF txt = <<>> THEN
            IF bitmap_jpn(jpn) # <<>> THEN [idx |-> None, reason |-> ImageOnly]
            ELSE [idx |-> None, reason |-> NoTextJpn]
        ELSE IF non_forced_text(txt) = <<>> THEN [idx |-> None, reason |-> NoTextJpn]
        ELSE [idx |-> <<sorted_desc(non_forced_text(txt))[1].index>>, reason |-> Selected]

pick_best_jpn_text_sub(ss) ==
    LET jpn == jpn_streams(ss)
        txt == text_jpn(jpn)
    IN  IF ss = <<>> THEN [idx |-> None, reason |-> NoStreams]
        ELSE IF jpn = <<>> THEN [idx |-> None, reason |-> NoLanguageMatch]
        ELSE IF txt = <<>> THEN
            IF bitmap_jpn(jpn) # <<>> THEN [idx |-> None, reason |-> ImageOnly]
            ELSE [idx |-> None, reason |-> NoTextJpn]
        ELSE [idx |-> <<sorted_desc(pool(txt))[1].index>>, reason |-> Selected]

-----------------------------------------------------------------------------
(* Inputs: what ffprobe can report for one file *)

CodecNames == {
    <<"s", "u", "b", "r", "i", "p">>,
    <<"A", "S", "S">>,
    <<"s", "s", "a">>,
    <<"m", "o", "v", "_", "t", "e", "x", "t">>,
    <<"W", "e", "b", "V", "T", "T">>,
    <<"h", "d", "m", "v", "_", "p", "g", "s", "_", "s", "u", "b", "t", "i", "t", "l", "e">>,
    <<"D", "V", "D", "_", "S", "u", "b", "t", "i", "t", "l", "e">>,
    <<"d", "v", "b", "_", "t", "e", "l", "e", "t", "e", "x", "t">>,
    None }

LangTags == {
    [language |-> <<"j", "p", "n">>, LANGUAGE |-> None, title |-> None],
    [language |-> None, LANGUAGE |-> <<"J", "A">>, title |-> None],
    [language |-> <<"e", "n", "g">>, LANGUAGE |-> None, title |-> None],
    [language |-> None, LANGUAGE |-> None, title |-> None] }

Titles == {
    None,
    <<"F", "u", "l", "l">>,
    <<"F", "o", "r", "c", "e", "d">>,
    <<"S", "i", "g", "n", "s", " ", "&", " ", "S", "o", "n", "g", "s">>,
    <<"F", "u", "l", "l", " ", "F", "o", "r", "c", "e", "d">>,
    <<"F", "o", "r", "c", "e", "d", " ", "F", "u", "l", "l", " ", "S", "D", "H">>,
    <<"S", "i", "g", "n">> }

\* streams of every codec and language, plain disposition, no title
ClassifyShapes ==
    { [codec_name |-> c, tags |-> g, disposition |-> [forced |-> 0, default |-> 0]] :
        c \in CodecNames, g \in LangTags }

\* Japanese text streams of every disposition and title, and three others
RankShapes ==
    { [codec_name |-> <<"s", "u", "b", "r", "i", "p">>,
       tags |-> [language |-> <<"j", "p", "n">>, LANGUAGE |-> None, title |-> ti],
       disposition |-> [forced |-> f, default |-> d]] :
        ti \in Titles, f \in {0, 1}, d \in {0, 1} }
    \cup
    { [codec_name |-> <<"m", "o", "v", "_", "t", "e", "x", "t">>,
       tags |-> [language |-> None, LANGUAGE |-> <<"J", "A">>, title |-> None],
       disposition |-> [forced |-> 1, default |-> 0]],
      [codec_name |-> <<"h", "d", "m", "v", "_", "p", "g", "s", "_", "s", "u", "b", "t", "i", "t", "l", "e">>,
       tags |-> [language |-> <<"j", "p", "n">>, LANGUAGE |-> None, title |-> None],
       disposition |-> [forced |-> 0, default |-> 1]],
      [codec_name |-> <<"a", "s", "s">>,
       tags |-> [language |-> <<"e", "n", "g">>, LANGUAGE |-> None, title |-> <<"F", "u", "l", "l">>],
       disposition |-> [forced |-> 0, default |-> 1]] }

\* stream indexes are unique within a file, in any order
Perms(n) == {p \in [1..n -> 1..n] : \A i, j \in 1..n : p[i] = p[j] => i = j}

\* ss is a list of at most MaxStreams streams of the given shapes
IsStreamList(ss, shapes) ==
    \E n \in 0..MaxStreams :
        \E b \in [1..n -> shapes], p \in Perms(n) :
            ss = [i \in 1..n |-> [index |-> p[i],
                                  codec_name |-> b[i].codec_name,
                                  tags |-> b[i].tags,
                                  disposition |-> b[i].disposition]]

-----------------------------------------------------------------------------
(* Selection runs: ffprobe has answered, pick_best_jpn_text_sub runs *)

NoRun ==
    /\ text = <<>>
    /\ cleaned = <<>>
    /\ clean_only = FALSE
    /\ cur = 0
    /\ existing = {}
    /\ ext_sub = "unset"
    /\ status = <<>>

Init ==
    /\ pc = "probed"
    /\ IsStreamList(streams, ClassifyShapes)
    /\ result = [idx |-> None, reason |-> ""]
    /\ NoRun

InitRank ==
    /\ pc = "probed"
    /\ IsStreamList(streams, RankShapes)
    /\ result = [idx |-> None, reason |-> ""]
    /\ NoRun

PickBest ==
    /\ pc = "probed"
    /\ result' = pick_best_jpn_text_sub(streams)
    /\ pc' = "picked"
    /\ UNCHANGED <<streams, text, cleaned, clean_only, cur, existing, ext_sub, status>>

Next == PickBest

Spec == Init /\ [][Next]_vars

SpecRank == InitRank /\ [][Next]_vars

-----------------------------------------------------------------------------
(* Properties of the selection *)

Picked == pc = "picked"

\* the language tag of a stream, lower-cased, is "jpn" or "ja"
LanguageMatched(s) ==
    Lower(lang_of(s.tags)) \in { <<"j", "p", "n">>, <<"j", "a">> }

TextFamily(s) ==
    Lower(s.codec_name) \in { <<"s", "u", "b", "r", "i", "p">>, <<"a", "s", "s">>, <<"s", "s", "a">>, <<"m", "o", "v", "_", "t", "e", "x", "t">>, <<"w", "e", "b", "v", "t", "t">> }

ImageFamily(s) ==
    Lower(s.codec_name) \in { <<"h", "d", "m", "v", "_", "p", "g", "s", "_", "s", "u", "b", "t", "i", "t", "l", "e">>, <<"d", "v", "d", "_", "s", "u", "b", "t", "i", "t", "l", "e">> }

StreamSet == {streams[i] : i \in 1..Len(streams)}

Candidates == {s \in StreamSet : LanguageMatched(s) /\ TextFamily(s)}

\* the title contains the word w, case-insensitively
TitleHas(s, w) == Contains(Lower(s.tags.title), w)

ForcedLooking(s) ==
    \/ s.disposition.forced # 0
    \/ TitleHas(s, <<"f", "o", "r", "c", "e", "d">>)
    \/ TitleHas(s, <<"s", "i", "g", "n", "s">>)
    \/ TitleHas(s, <<"s", "o", "n", "g", "s", " ", "&", " ", "s", "i", "g", "n", "s">>)
    \/ TitleHas(s, <<"s", "o", "n", "g", "s", "/", "s", "i", "g", "n", "s">>)

\* C1: an empty list gives (None, NoStreams); a non-empty list without a
\* language match gives (None, NoLanguageMatch) whatever the codecs; a list
\* whose language matches all have image-family codecs gives
\* (None, ImageOnly); the three reasons differ pairwise.
C1_EmptyResultCases ==
    Picked =>
        /\ streams = <<>> => result = [idx |-> None, reason |-> NoStreams]
        /\ (streams # <<>> /\ \A s \in StreamSet : ~LanguageMatched(s))
              => result = [idx |-> None, reason |-> NoLanguageMatch]
        /\ ( /\ \E s \in StreamSet : LanguageMatched(s)
             /\ \A s \in StreamSet : LanguageMatched(s) => ImageFamily(s) )
              => result = [idx |-> None, reason |-> ImageOnly]
        /\ NoStreams # NoLanguageMatch
        /\ NoStreams # ImageOnly
        /\ NoLanguageMatch # ImageOnly

\* an upper-case language tag under the LANGUAGE key, on image streams only
C1_Witness ==
    /\ Picked
    /\ result.reason = ImageOnly
    /\ Len(streams) = MaxStreams
    /\ \E s \in StreamSet : s.tags.LANGUAGE = <<"J", "A">>
    /\ \E s \in StreamSet : ~LanguageMatched(s) /\ TextFamily(s)

\* C2 as stated: every result is one of the four outcomes NoStreams,
\* NoLanguageMatch, ImageOnly (each without an index) or Selected (with one).
C2_FourOutcomes ==
    Picked =>
        \/ result.idx = None /\ result.reason \in {NoStreams, NoLanguageMatch, ImageOnly}
        \/ result.idx # None /\ result.reason = Selected

\* C2 amended: every result is one of five outcomes; the fifth,
\* "No text-based Japanese subtitles found", is returned exactly when some
\* stream is language-matched and no language-matched stream has a text or
\* image codec.
C2_FiveOutcomes ==
    Picked =>
        /\ \/ result.idx = None
              /\ result.reason \in {NoStreams, NoLanguageMatch, ImageOnly, NoTextJpn}
           \/ result.idx # None /\ result.reason = Selected
        /\ result.reason = NoTextJpn <=>
              /\ \E s \in StreamSet : LanguageMatched(s)
              /\ \A s \in StreamSet :
                    LanguageMatched(s) => ~TextFamily(s) /\ ~ImageFamily(s)

C2_Witness ==
    /\ Picked
    /\ result = [idx |-> None, reason |-> NoTextJpn]
    /\ \E s \in StreamSet : TextFamily(s)

\* C3: when some stream is language-matched with a text codec, an index is
\* returned, also when every such stream is forced-flagged or forced-titled.
C3_NeverNoneWithCandidates ==
    (Picked /\ Candidates # {}) => result.idx # None /\ result.reason = Selected

C3_Witness ==
    /\ Picked
    /\ Cardinality(Candidates) = MaxStreams
    /\ \A s \in Candidates : ForcedLooking(s)
    /\ \E s \in Candidates : s.disposition.forced = 0
    /\ result.idx # None

SameButTitle(a, b) ==
    /\ a.codec_name = b.codec_name
    /\ a.tags.language = b.tags.language
    /\ a.tags.LANGUAGE = b.tags.LANGUAGE
    /\ a.disposition = b.disposition
    /\ a.tags.title # b.tags.title

\* C4 as stated: of two candidates that differ only in title, one title
\* containing "full" and the other containing "forced", the "full" one is
\* selected when the two are the only candidates.
C4_FullBeatsForced ==
    (Picked /\ Cardinality(Candidates) = 2) =>
        \A a, b \in Candidates :
            ( /\ SameButTitle(a, b)
              /\ TitleHas(a, <<"f", "u", "l", "l">>)
              /\ TitleHas(b, <<"f", "o", "r", "c", "e", "d">>) )
            => result.idx = <<a.index>>

\* C4 amended: ... one title containing "full" and the other containing
\* "forced" but not "full" ...: the "full" one is selected.
C4_FullBeatsForcedOnly ==
    (Picked /\ Cardinality(Candidates) = 2) =>
        \A a, b \in Candidates :
            ( /\ SameButTitle(a, b)
              /\ TitleHas(a, <<"f", "u", "l", "l">>)
              /\ TitleHas(b, <<"f", "o", "r", "c", "e", "d">>)
              /\ ~TitleHas(b, <<"f", "u", "l", "l">>) )
            => result.idx = <<a.index>>

\* the "full" title also says "forced", and sits at the higher index
C4_Witness ==
    /\ Picked
    /\ Cardinality(Candidates) = 2
    /\ \E a, b \in Candidates :
          /\ SameButTitle(a, b)
          /\ TitleHas(a, <<"f", "u", "l", "l">>) /\ TitleHas(a, <<"f", "o", "r", "c", "e", "d">>)
          /\ TitleHas(b, <<"f", "o", "r", "c", "e", "d">>) /\ ~TitleHas(b, <<"f", "u", "l", "l">>)
          /\ a.index > b.index
          /\ result.idx = <<a.index>>

\* the score the ranking is specified to use
ExpectedScore(s) ==
    << 100 + title_prefers_full(s.tags.title)
           + (IF s.disposition.default = 1 THEN 5 ELSE 0)
           + (IF s.disposition.forced = 0 THEN 10 ELSE 0),
       0 - s.index,
       0 - s.disposition.forced >>

LexLess(x, y) ==
    \E k \in 1..3 : x[k] < y[k] /\ \A j \in 1..(k - 1) : x[j] = y[j]

\* C5: the selected stream is the first element of the ranking pool, in list
\* order, whose score (base, -index, -forced) is greatest; two candidates
\* with the same disposition and no title give the lower index.
C5_GreatestScoreWins ==
    (Picked /\ Candidates # {}) =>
        LET p == pool(text_jpn(jpn_streams(streams)))
            e == [k \in 1..Len(p) |-> ExpectedScore(p[k])]
        IN  /\ \E k \in 1..Len(p) :
                  /\ result.idx = <<p[k].index>>
                  /\ \A j \in 1..Len(p) : ~LexLess(e[k], e[j])
                  /\ \A j \in 1..(k - 1) : LexLess(e[j], e[k])
            /\ Cardinality(Candidates) = 2 =>
                  \A a, b \in Candidates :
                      ( /\ a.disposition = b.disposition
                        /\ a.tags.title = None /\ b.tags.title = None
                        /\ a.index < b.index )
                      => result.idx = <<a.index>>

\* two untitled candidates with the same disposition, the lower index last
C5_Witness ==
    /\ Picked
    /\ Len(streams) = 2
    /\ Cardinality(Candidates) = 2
    /\ streams[1].disposition = streams[2].disposition
    /\ streams[1].tags.title = None /\ streams[2].tags.title = None
    /\ streams[2].index < streams[1].index
    /\ result.idx = <<streams[2].index>>

\* C7: the selected stream is a language-matched text stream of the input,
\* and it is forced-flagged or forced-titled only when every such stream is.
C7_ForcedOnlyAsLastResort ==
    (Picked /\ result.idx # None) =>
        \E s \in Candidates :
            /\ result.idx = <<s.index>>
            /\ (\E c \in Candidates : ~ForcedLooking(c)) => ~ForcedLooking(s)

\* a forced-titled default track outscores the plain one and is still not chosen
C7_Witness ==
    /\ Picked
    /\ \E s, c \in Candidates :
          /\ result.idx = <<s.index>>
          /\ ~ForcedLooking(s)
          /\ ForcedLooking(c)
          /\ LexLess(ExpectedScore(s), ExpectedScore(c))

-----------------------------------------------------------------------------
(* clean_srt: sed -E 's/&lrm;//g; s/\xE2\x80\x8E//g; s/\{\\an[1-9]\}//g' *)

\* the character U+200E (bytes E2 80 8E), as one character
LRM == "U+200E"

Digits1to9 == {"1", "2", "3", "4", "5", "6", "7", "8", "9"}

\* length of the match of &lrm; at position i of s, 0 when there is none
lrm_entity_len(s, i) ==
    IF i + 4 <= Len(s) /\ SubSeq(s, i, i + 4) = <<"&", "l", "r", "m", ";">> THEN 5 ELSE 0

\* length of the match of \xE2\x80\x8E at position i
lrm_char_len(s, i) == IF s[i] = LRM THEN 1 ELSE 0

\* \{\\an[1-9]\} without the opening brace
an_tag_len_no_brace(s, i) ==
    IF /\ i + 4 <= Len(s)
       /\ SubSeq(s, i, i + 2) = <<"\\", "a", "n">>
       /\ s[i + 3] \in Digits1to9
       /\ s[i + 4] = "}"
    THEN 5 ELSE 0

\* length of the match of \{\\an[1-9]\} at position i
an_tag_len(s, i) ==
    IF /\ i + 5 <= Len(s)
       /\ SubSeq(s, i, i + 3) = <<"{", "\\", "a", "n">>
       /\ s[i + 4] \in Digits1to9
       /\ s[i + 5] = "}"
    THEN 6 ELSE 0

\* the three s commands of sed_expr, by position
match_len(rule, s, i) ==
    CASE rule = 1 -> lrm_entity_len(s, i)
      [] rule = 2 -> lrm_char_len(s, i)
      [] rule = 3 -> an_tag_len(s, i)

\* s/re// without the g flag: only the first match goes
RECURSIVE sed_delete_first(_, _, _)
sed_delete_first(rule, s, i) ==
    IF i > Len(s) THEN <<>>
    ELSE IF match_len(rule, s, i) > 0
         THEN SubSeq(s, i + match_len(rule, s, i), Len(s))
         ELSE <<s[i]>> \o sed_delete_first(rule, s, i + 1)

\* s/re//g from position i: matches are found left to right in the input
\* and the scan resumes behind each match
RECURSIVE sed_delete_all(_, _, _)
sed_delete_all(rule, s, i) ==
    IF i > Len(s) THEN <<>>
    ELSE IF match_len(rule, s, i) > 0
         THEN sed_delete_all(rule, s, i + match_len(rule, s, i))
         ELSE <<s[i]>> \o sed_delete_all(rule, s, i + 1)

clean_srt(s) == sed_delete_all(3, sed_delete_all(2, sed_delete_all(1, s, 1), 1), 1)

-----------------------------------------------------------------------------
(* Clean-up runs: a subtitle text, cleaned once *)

Fragments == {
    <<"&", "l", "r", "m", ";">>,
    <<"&", "l">>,
    <<"r", "m", ";">>,
    <<LRM>>,
    <<"{", "\\", "a", "n", "8", "}">>,
    <<"{">>,
    <<"\\", "a">>,
    <<"n", "8", "}">>,
    <<"H", "i">> }

RECURSIVE Concat(_)
Concat(fs) == IF fs = <<>> THEN <<>> ELSE Head(fs) \o Concat(Tail(fs))

Texts == { Concat(fs) : fs \in UNION { [1..n -> Fragments] : n \in 0..MaxFrags } }

InitClean ==
    /\ pc = "dirty"
    /\ text \in Texts
    /\ cleaned = <<>>
    /\ streams = <<>>
    /\ result = [idx |-> None, reason |-> ""]
    /\ clean_only = FALSE
    /\ cur = 0
    /\ existing = {}
    /\ ext_sub = "unset"
    /\ status = <<>>

CleanSrt ==
    /\ pc = "dirty"
    /\ cleaned' = clean_srt(text)
    /\ pc' = "clean"
    /\ UNCHANGED <<streams, result, text, clean_only, cur, existing, ext_sub, status>>

NextClean == CleanSrt

SpecClean == InitClean /\ [][NextClean]_vars

-----------------------------------------------------------------------------
(* Properties of the clean-up *)

Clean == pc = "clean"

\* an occurrence of one of the three patterns starts at position i of s
OccursAt(s, i) ==
    \/ i + 4 <= Len(s) /\ SubSeq(s, i, i + 4) = <<"&", "l", "r", "m", ";">>
    \/ s[i] = LRM
    \/ /\ i + 5 <= Len(s)
       /\ SubSeq(s, i, i + 3) = <<"{", "\\", "a", "n">>
       /\ s[i + 4] \in Digits1to9
       /\ s[i + 5] = "}"

OccurrenceLen(s, i) ==
    IF s[i] = LRM THEN 1 ELSE IF s[i] = "&" THEN 5 ELSE 6

HasOccurrence(s) == \E i \in 1..Len(s) : OccursAt(s, i)

\* s without the occurrences it contains
RECURSIVE WithoutOccurrences(_, _)
WithoutOccurrences(s, i) ==
    IF i > Len(s) THEN <<>>
    ELSE IF OccursAt(s, i) THEN WithoutOccurrences(s, i + OccurrenceLen(s, i))
         ELSE <<s[i]>> \o WithoutOccurrences(s, i + 1)

\* no occurrence of a pattern is split by another one: deleting the
\* occurrences of s does not join the text around them into a new one
NoSplitOccurrence(s) == ~HasOccurrence(WithoutOccurrences(s, 1))

\* C6 as stated: for every text, cleaning the cleaned text changes nothing.
C6_Idempotent ==
    Clean => clean_srt(cleaned) = cleaned

\* C6 amended: for every text in which no occurrence of a pattern is split
\* by another occurrence, cleaning the cleaned text changes nothing.
C6_IdempotentUnsplit ==
    (Clean /\ NoSplitOccurrence(text)) => clean_srt(cleaned) = cleaned

\* a text with two occurrences of the same pattern and one of another
C6_Witness ==
    /\ Clean
    /\ NoSplitOccurrence(text)
    /\ \E i, j \in 1..Len(text) :
          /\ i < j
          /\ text[i] = "&" /\ OccursAt(text, i)
          /\ text[j] = "&" /\ OccursAt(text, j)
    /\ \E i \in 1..Len(text) : text[i] = "{" /\ OccursAt(text, i)
    /\ cleaned = <<>>

\* the three passes in the order o
InOrder(o, s) ==
    sed_delete_all(o[3], sed_delete_all(o[2], sed_delete_all(o[1], s, 1), 1), 1)

\* C8 as stated: for every text, the three passes give the same text in
\* each of their six orders.
C8_OrderIndependent ==
    Clean => \A o \in Perms(3) : InOrder(o, text) = cleaned

\* C8 amended: for every text in which no occurrence of a pattern is split
\* by another occurrence, the three passes give the same text in each of
\* their six orders.
C8_OrderIndependentUnsplit ==
    (Clean /\ NoSplitOccurrence(text)) => \A o \in Perms(3) : InOrder(o, text) = cleaned

\* an entity, a tag and other text: only the other text is left
C8_Witness ==
    /\ Clean
    /\ NoSplitOccurrence(text)
    /\ \E i \in 1..Len(text) : text[i] = "&" /\ OccursAt(text, i)
    /\ \E i \in 1..Len(text) : text[i] = "{" /\ OccursAt(text, i)
    /\ cleaned # <<>>
    /\ cleaned # text

-----------------------------------------------------------------------------
(* find_external_sub, extract_subs and the loop of main *)

\* the sibling names probed, as suffixes of the base name, in probing order
candidates == <<".ja.srt", ".jpn.srt", ".jp.srt", ".srt", ".ass", ".ssa">>

\* find_external_sub returning the last candidate that exists
find_external_sub_last(ex) ==
    IF \E k \in 1..Len(candidates) : candidates[k] \in ex
    THEN candidates[CHOOSE k \in 1..Len(candidates) :
                        /\ candidates[k] \in ex
                        /\ \A j \in (k + 1)..Len(candidates) : candidates[j] \notin ex]
    ELSE "None"

\* the for loop of find_external_sub from candidate k on; ex is the set of
\* names for which os.path.exists is true
RECURSIVE probe_from(_, _)
probe_from(ex, k) ==
    IF k > Len(candidates) THEN "None"
    ELSE IF candidates[k] \in ex THEN candidates[k]
    ELSE probe_from(ex, k + 1)

find_external_sub(ex) == probe_from(ex, 1)

\* what ffprobe reports in the runs of main
ProbeSamples == {
    <<>>,
    << [index |-> 2, codec_name |-> <<"s", "u", "b", "r", "i", "p">>,
        tags |-> [language |-> <<"j", "p", "n">>, LANGUAGE |-> None, title |-> <<"F", "u", "l", "l", " ", "S", "u", "b", "t", "i", "t", "l", "e", "s">>],
        disposition |-> [forced |-> 0, default |-> 1]],
       [index |-> 3, codec_name |-> <<"s", "u", "b", "r", "i", "p">>,
        tags |-> [language |-> <<"j", "p", "n">>, LANGUAGE |-> None, title |-> <<"S", "i", "g", "n", "s", " ", "&", " ", "S", "o", "n", "g", "s">>],
        disposition |-> [forced |-> 1, default |-> 0]] >>,
    << [index |-> 5, codec_name |-> <<"h", "d", "m", "v", "_", "p", "g", "s", "_", "s", "u", "b", "t", "i", "t", "l", "e">>,
        tags |-> [language |-> <<"j", "p", "n">>, LANGUAGE |-> None, title |-> None],
        disposition |-> [forced |-> 0, default |-> 0]] >>,
    << [index |-> 1, codec_name |-> <<"a", "s", "s">>,
        tags |-> [language |-> <<"e", "n", "g">>, LANGUAGE |-> None, title |-> None],
        disposition |-> [forced |-> 0, default |-> 0]] >> }

\* what the extracted or copied subtitle file holds in the runs of main
TextSamples == {
    <<"&", "l", "r", "m", ";", "{", "\\", "a", "n", "8", "}", "H", "i">>,
    <<"H", "i">> }

Files == 1..NumFiles

Untouched == [extract |-> "none", clean |-> "none", embed |-> "none"]

\* the loop going to the file after files[c]
next_file(c) == IF c = NumFiles THEN "done" ELSE "extract"

\* SystemExit out of extract_subs left uncaught
extract_exit_uncaught(c) == "exited"

\* except SystemExit: continue
extract_exit(c) == next_file(c)

InitMain ==
    /\ pc = "extract"
    /\ cur = 1
    /\ clean_only \in BOOLEAN
    /\ status = [i \in Files |-> Untouched]
    /\ streams = <<>>
    /\ result = [idx |-> None, reason |-> ""]
    /\ existing = {}
    /\ ext_sub = "unset"
    /\ text = <<>>
    /\ cleaned = <<>>

\* the loop moves past files[cur]
Advance(to) ==
    /\ pc' = to
    /\ cur' = IF to = "exited" THEN cur ELSE cur + 1

\* extract_subs(infile, tmp_srt, clean_only) for files[cur], with main's
\* try/except around it.  probe_ok: ffprobe succeeds; ss: what it reports;
\* ex: the sibling files that exist; cmd_ok: the cp or ffmpeg command
\* succeeds; out: what it writes to tmp_srt
\* existing and ext_sub keep what the last call of find_external_sub saw and
\* returned, ext_sub = "unset" when the call did not reach it
Extracted(out) ==
    /\ status' = [status EXCEPT ![cur].extract = "ok"]
    /\ text' = out
    /\ pc' = "clean"
    /\ cur' = cur

ExtractExits ==
    /\ status' = [status EXCEPT ![cur].extract = "exit"]
    /\ text' = <<>>
    /\ Advance(extract_exit(cur))

ExtractSubs ==
    /\ pc = "extract"
    /\ \E probe_ok \in BOOLEAN :
          IF ~probe_ok
          THEN \* ffprobe_streams: sys.exit(1)
               /\ streams' = <<>>
               /\ result' = [idx |-> None, reason |-> ""]
               /\ existing' = {}
               /\ ext_sub' = "unset"
               /\ ExtractExits
          ELSE \E ss \in ProbeSamples :
                 LET r == pick_best_jpn_text_sub(ss)
                 IN  /\ streams' = ss
                     /\ result' = r
                     /\ IF r.idx = None
                        THEN \E ex \in SUBSET {candidates[k] : k \in 1..Len(candidates)} :
                               LET found == find_external_sub(ex)
                               IN  /\ existing' = ex
                                   /\ ext_sub' = found
                                   /\ IF found # "None"
                                      THEN \* run_cmd(["cp", ext_sub, tmp_srt])
                                           \E cmd_ok \in BOOLEAN :
                                             IF cmd_ok
                                             THEN \E out \in TextSamples : Extracted(out)
                                             ELSE ExtractExits
                                      ELSE ExtractExits
                        ELSE /\ existing' = {}
                             /\ ext_sub' = "unset"
                             /\ \* run_cmd(ffmpeg ... -map 0:idx -c:s srt tmp_srt)
                                \E cmd_ok \in BOOLEAN :
                                  IF cmd_ok
                                  THEN \E out \in TextSamples : Extracted(out)
                                  ELSE ExtractExits
    /\ cleaned' = <<>>
    /\ UNCHANGED clean_only

\* clean_srt(tmp_srt, clean_srt_file) for files[cur]: sed edits tmp_srt,
\* os.replace moves it to clean_srt_file; a failing sed leaves main through
\* run_cmd's sys.exit
MainClean ==
    /\ pc = "clean"
    /\ \E cmd_ok \in BOOLEAN :
          IF cmd_ok
          THEN /\ status' = [status EXCEPT ![cur].clean = "ok"]
               /\ cleaned' = clean_srt(text)
               /\ text' = <<>>
               /\ IF clean_only THEN Advance(next_file(cur))
                  ELSE pc' = "embed" /\ cur' = cur
          ELSE /\ status' = [status EXCEPT ![cur].clean = "exit"]
               /\ UNCHANGED <<text, cleaned>>
               /\ Advance("exited")
    /\ UNCHANGED <<streams, result, existing, ext_sub, clean_only>>

\* embed_subs(infile, clean_srt_file, out_mp4) for files[cur]
MainEmbed ==
    /\ pc = "embed"
    /\ \E cmd_ok \in BOOLEAN :
          IF cmd_ok
          THEN /\ status' = [status EXCEPT ![cur].embed = "ok"]
               /\ Advance(next_file(cur))
          ELSE /\ status' = [status EXCEPT ![cur].embed = "exit"]
               /\ Advance("exited")
    /\ UNCHANGED <<streams, result, existing, ext_sub, text, cleaned, clean_only>>

NextMain == ExtractSubs \/ MainClean \/ MainEmbed

SpecMain == InitMain /\ [][NextMain]_vars

-----------------------------------------------------------------------------
(* Properties of the fallback and of the loop *)

\* C9: the fallback is consulted only when the selection returned no index;
\* it returns the first existing name in the order .ja.srt, .jpn.srt,
\* .jp.srt, .srt, .ass, .ssa, and none exactly when none of the six exists.
C9_FallbackFirstExisting ==
    ext_sub # "unset" =>
        /\ result.idx = None
        /\ result.reason \in {NoStreams, NoLanguageMatch, ImageOnly, NoTextJpn}
        /\ ext_sub = "None" <=>
              existing \cap {".ja.srt", ".jpn.srt", ".jp.srt", ".srt", ".ass", ".ssa"} = {}
        /\ \A k \in 1..6 :
              LET order == <<".ja.srt", ".jpn.srt", ".jp.srt", ".srt", ".ass", ".ssa">>
              IN  ext_sub = order[k] <=>
                    /\ order[k] \in existing
                    /\ \A j \in 1..(k - 1) : order[j] \notin existing

\* .jp.srt is found although .srt and .ssa exist too
C9_Witness ==
    /\ ext_sub = ".jp.srt"
    /\ existing = {".jp.srt", ".srt", ".ssa"}
    /\ result.reason = ImageOnly
    /\ status[cur].extract = "ok"

Finished(i) ==
    \/ status[i].extract = "exit"
    \/ status[i].clean = "ok" /\ (clean_only \/ status[i].embed = "ok")

LoopOrder ==
    \A i \in Files :
        \* nothing after a failed extract_subs
        /\ status[i].extract = "exit" => status[i].clean = "none" /\ status[i].embed = "none"
        \* clean_srt only after extract_subs succeeded
        /\ status[i].clean # "none" => status[i].extract = "ok"
        \* embed_subs only after clean_srt, and not with --clean-only
        /\ status[i].embed # "none" => status[i].clean = "ok" /\ ~clean_only
        \* one file after another, in list order
        /\ \A j \in Files : (i < j /\ status[j] # Untouched) => Finished(i)
        /\ (pc # "exited" /\ i < cur) => Finished(i)
        /\ i > cur => status[i] = Untouched
        \* a loop that ran to its end has called extract_subs for every file
        /\ pc = "done" => status[i].extract # "none"

ExitKeepsLooping ==
    (pc = "extract" /\ status'[cur].extract = "exit") =>
        /\ cur' = cur + 1
        /\ pc' = IF cur = NumFiles THEN "done" ELSE "extract"
        /\ status'[cur].clean = "none" /\ status'[cur].embed = "none"
        /\ \A i \in Files : i # cur => status'[i] = status[i]

====
